---- MODULE Spec2Model ----
(***************************************************************************)
(* Model of src/index.ts: the Hacker News tool server.                     *)
(*                                                                         *)
(* The CallToolRequestSchema handler is an async function, so several      *)
(* tool calls can be in flight at once; each call is a small process       *)
(* whose steps are the synchronous stretches of code between two awaits.   *)
(* The upstream API is the environment: every HTTP request either fails    *)
(* or answers with the data of a fixed snapshot.                           *)
(***************************************************************************)
EXTENDS Integers, Sequences, FiniteSets, TLC

\* ------------------------------------------------------------------ bounds
MaxIds == 3         \* length of the upstream newstories / topstories lists
MaxItemId == 4      \* largest item id that exists upstream
MaxLimitArg == 3    \* largest numeric limit a caller passes in Spec
MaxIndexArg == 3    \* largest story_index a caller passes
MaxUpstreamIds == 52  \* longest upstream id list in SpecLimit
MaxWideLimit == 52  \* largest numeric limit a caller passes in SpecLimit
MaxChunks == 3      \* chunks an input text of SpecClean is made of

\* ------------------------------------------------------- program constants
DefaultLimit == 10
SchemaLimitMax == 50

\* The tool calls that can be in flight at once.
Calls == {1, 2}

\* ---------------------------------------------------------- JS values
\* An argument of the argument bag: absent, a non-number (a string), or a
\* number.  A local of type number is a number or NaN.
Absent == [t |-> "absent", n |-> 0]
Str == [t |-> "string", n |-> 0]
NaN == [t |-> "nan", n |-> 0]
Num(n) == [t |-> "number", n |-> n]

\* typeof a === 'number' ? a : NaN
NumberOrNaN(a) == IF a.t = "number" THEN a ELSE NaN

isNaN(x) == x.t = "nan"

\* ---------------------------------------------------------- upstream
\* Items as the per-item endpoint answers them.  type "null" is the JSON
\* body null (no such item) and also what getItemDetails returns on failure.
Null == [id |-> 0, type |-> "null", hasKids |-> FALSE, kids |-> <<>>]
Pending == [id |-> 0, type |-> "pending", hasKids |-> FALSE, kids |-> <<>>]

UpstreamItem(id) ==
  IF id < 1 \/ id > MaxItemId THEN Null
  ELSE CASE id % 4 = 1 -> [id |-> id, type |-> "story", hasKids |-> FALSE, kids |-> <<>>]
         [] id % 4 = 2 -> [id |-> id, type |-> "story", hasKids |-> TRUE, kids |-> <<id + 1>>]
         [] id % 4 = 3 -> [id |-> id, type |-> "comment", hasKids |-> FALSE, kids |-> <<>>]
         [] OTHER -> [id |-> id, type |-> "story", hasKids |-> TRUE, kids |-> <<>>]

topstories == [i \in 1..MaxIds |-> i]
newstories == [i \in 1..MaxIds |-> MaxIds + 1 - i]
beststories == <<4, 1>>

ListNames == {"hn_latest", "hn_top", "hn_best"}

UpstreamIds(name) ==
  CASE name = "hn_latest" -> newstories
    [] name = "hn_top" -> topstories
    [] OTHER -> beststories

\* ---------------------------------------------------------- pure helpers
Min(a, b) == IF a < b THEN a ELSE b
Max(a, b) == IF a > b THEN a ELSE b

\* Array.prototype.slice(0, end) for an integer end: a negative end counts
\* from the back of the array.
Slice(ids, end) ==
  LET len == Len(ids)
      k == IF end < 0 THEN Max(len + end, 0) ELSE Min(end, len)
  IN SubSeq(ids, 1, k)

\* const limit = typeof args?.limit === 'number' ? args.limit : 10
ResolveLimit(limitArg) == IF limitArg.t = "number" THEN limitArg.n ELSE DefaultLimit

\* storyIds.slice(0, limit).map(id => this.getItemDetails(id)): the ids whose
\* fetches are launched, in launch order.
LaunchedIds(ids, limit) == Slice(ids, limit)

IsStory(item) == item.type # "null" /\ item.type = "story"
NotNull(item) == item.type # "null"

\* stories.filter(story => story !== null && story.type === 'story')
RECURSIVE FilterStories(_)
FilterStories(results) ==
  IF results = <<>> THEN <<>>
  ELSE (IF IsStory(Head(results)) THEN <<Head(results)>> ELSE <<>>)
       \o FilterStories(Tail(results))

\* comments.filter(comment => comment !== null)
RECURSIVE FilterComments(_)
FilterComments(results) ==
  IF results = <<>> THEN <<>>
  ELSE (IF NotNull(Head(results)) THEN <<Head(results)>> ELSE <<>>)
       \o FilterComments(Tail(results))

\* story.kids?.length || 0
CommentsCount(item) == IF item.hasKids THEN Len(item.kids) ELSE 0

\* The FormattedStory of a raw story; title, by, time, url and score are
\* copied through and are not modelled.
FormatStory(item) == [id |-> item.id, commentsCount |-> CommentsCount(item)]

FormatStories(stories) == [i \in 1..Len(stories) |-> FormatStory(stories[i])]

Ids(records) == [i \in 1..Len(records) |-> records[i].id]

\* ---------------------------------------------------------- cleanText
\* A text is the sequence of its characters.
RECURSIVE ReplaceAll(_, _, _)
\* String.prototype.replace with a global literal pattern.
ReplaceAll(s, pat, by) ==
  IF Len(s) < Len(pat) THEN s
  ELSE IF SubSeq(s, 1, Len(pat)) = pat
  THEN by \o ReplaceAll(SubSeq(s, Len(pat) + 1, Len(s)), pat, by)
  ELSE <<Head(s)>> \o ReplaceAll(Tail(s), pat, by)

\* .replace(/&gt;/g, '>').replace(/&lt;/g, '<').replace(/&amp;/g, '&')
\* .replace(/&quot;/g, '"')
DecodeEntities(s) ==
  LET gt == ReplaceAll(s, <<"&", "g", "t", ";">>, <<">">>)
      lt == ReplaceAll(gt, <<"&", "l", "t", ";">>, <<"<">>)
      amp == ReplaceAll(lt, <<"&", "a", "m", "p", ";">>, <<"&">>)
  IN ReplaceAll(amp, <<"&", "q", "u", "o", "t", ";">>, <<"\"">>)

RECURSIVE AfterTag(_)
\* What follows a match of [^>]*>? : the text after the next '>', if any.
AfterTag(s) ==
  IF s = <<>> THEN <<>>
  ELSE IF Head(s) = ">" THEN Tail(s)
  ELSE AfterTag(Tail(s))

RECURSIVE StripTags(_)
\* .replace(/<[^>]*>?/gm, '')
StripTags(s) ==
  IF s = <<>> THEN <<>>
  ELSE IF Head(s) = "<" THEN StripTags(AfterTag(Tail(s)))
  ELSE <<Head(s)>> \o StripTags(Tail(s))

\* Variant: tags are stripped before the entities are decoded.
cleanTextStripFirst(s) == IF s = <<>> THEN <<>> ELSE DecodeEntities(StripTags(s))

cleanText(s) == IF s = <<>> THEN <<>> ELSE StripTags(DecodeEntities(s))

\* ---------------------------------------------------------- payloads
\* What a call hands back: nothing yet, a text content block, or a thrown
\* Error.  msg is the fixed part of the text, id and ids its interpolations.
NoRet == [kind |-> "none", msg |-> "", id |-> 0, ids |-> <<>>]
Text(msg, id, ids) == [kind |-> "text", msg |-> msg, id |-> id, ids |-> ids]
Error(msg, id) == [kind |-> "error", msg |-> msg, id |-> id, ids |-> <<>>]

\* Variant: an empty list is reported by throwing.
formatStoriesAsTextThrows(stories) ==
  IF Len(stories) = 0 THEN Error("No stories found.", 0)
  ELSE Text("stories", 0, Ids(stories))

formatStoriesAsText(stories) ==
  IF Len(stories) = 0 THEN Text("No stories found.", 0, <<>>)
  ELSE Text("stories", 0, Ids(stories))

formatStoryAsText(story) == Text("story", story.id, <<>>)

formatCommentsAsText(story, comments) ==
  IF Len(comments) = 0 THEN Text("No comments found.", 0, <<>>)
  ELSE Text("comments", story.id, Ids(comments))

\* ---------------------------------------------------------- state
VARIABLES
  calls,            \* the tool calls in flight: call id -> its locals
  lastStoriesList,  \* the session slot (let lastStoriesList)
  hist,             \* history: the list call that started / completed last
  text,             \* cleanText: the input text
  cleaned,          \* cleanText: its result, once computed
  probe             \* limit handling: one list call's limit argument and fan-out

vars == <<calls, lastStoriesList, hist, text, cleaned, probe>>

\* The argument bag of a call, every argument missing.
NoArgs == [limit |-> Absent, story_id |-> Absent, story_index |-> Absent]

\* A call that is not running.  pc is the await the call is suspended at;
\* outOfOrder, listReqs and itemReqs are history: whether a fetch of the
\* batch settled before an earlier one, and the requests issued so far.
IdleCall ==
  [pc |-> "idle", name |-> "", args |-> NoArgs, limit |-> 0, storyId |-> NaN, storyIndex |-> NaN,
   target |-> 0, ids |-> <<>>, results |-> <<>>, idsFailed |-> FALSE,
   outOfOrder |-> FALSE, listReqs |-> 0, itemReqs |-> 0, ret |-> NoRet]

NotCleaned == [done |-> FALSE, out |-> <<>>]

NoProbe == [phase |-> "off", limitArg |-> Absent, n |-> 0, limit |-> 0, launched |-> 0]

Free(c) == calls[c].pc \in {"idle", "done"}

AllSettled(results) == \A i \in 1..Len(results) : results[i].type # "pending"

\* getItemDetails: the item, or null when the request fails.
getItemDetails(itemId, ok) == IF ok THEN UpstreamItem(itemId) ELSE Null

\* The arguments callers pass.
LimitArgs == {Absent, Str} \cup {Num(n) : n \in -1..MaxLimitArg}
StoryIdArgs == {Absent, Str} \cup {Num(n) : n \in 1..(MaxItemId + 1)}
StoryIndexArgs == {Absent, Str} \cup {Num(n) : n \in 0..MaxIndexArg}

Init ==
  /\ calls = [c \in Calls |-> IdleCall]
  /\ lastStoriesList = <<>>
  /\ hist = [started |-> 0, completed |-> 0]
  /\ text = <<>>
  /\ cleaned = NotCleaned
  /\ probe = NoProbe

\* ---------------------------------------------------------- list calls
\* hn_latest / hn_top / hn_best up to the first await: the id-list request.
InvokeList(c, name, limitArg) ==
  /\ Free(c)
  /\ calls' = [calls EXCEPT ![c] =
       [IdleCall EXCEPT !.pc = "awaitIds", !.name = name,
                        !.args = [NoArgs EXCEPT !.limit = limitArg],
                        !.limit = ResolveLimit(limitArg), !.listReqs = 1]]
  /\ hist' = [hist EXCEPT !.started = c]
  /\ UNCHANGED <<lastStoriesList, text, cleaned, probe>>

\* The id-list request settles.  On success the first limit ids are fetched
\* concurrently; on failure the catch block returns [].
IdsResponse(c, ok) ==
  /\ calls[c].pc = "awaitIds"
  /\ LET launched == IF ok THEN LaunchedIds(UpstreamIds(calls[c].name), calls[c].limit)
                     ELSE <<>>
     IN calls' = [calls EXCEPT ![c].pc = "awaitItems",
                               ![c].ids = launched,
                               ![c].results = [i \in 1..Len(launched) |-> Pending],
                               ![c].idsFailed = ~ok,
                               ![c].itemReqs = Len(launched)]
  /\ UNCHANGED <<lastStoriesList, hist, text, cleaned, probe>>

\* Variant: values are collected in the order the promises settle.
SettleAtFirstPending(results, i, item) ==
  LET k == CHOOSE j \in 1..Len(results) :
             /\ results[j].type = "pending"
             /\ \A l \in 1..(j - 1) : results[l].type # "pending"
  IN [results EXCEPT ![k] = item]

\* Promise.all keeps each value at the index of its promise.
SettleAt(results, i, item) == [results EXCEPT ![i] = item]

\* One getItemDetails promise of a batch settles, in any order.
ItemSettle(c, i, ok) ==
  /\ calls[c].pc \in {"awaitItems", "awaitComments"}
  /\ i \in 1..Len(calls[c].results)
  /\ calls[c].results[i].type = "pending"
  /\ calls' = [calls EXCEPT
       ![c].results = SettleAt(calls[c].results, i, getItemDetails(calls[c].ids[i], ok)),
       ![c].outOfOrder = calls[c].outOfOrder
                         \/ \E j \in 1..(i - 1) : calls[c].results[j].type = "pending"]
  /\ UNCHANGED <<lastStoriesList, hist, text, cleaned, probe>>

\* Variant: the slot is written only while it is still empty.
StoredListFirstWins(old, formattedStories) ==
  IF old # <<>> THEN old ELSE formattedStories

\* Variant: an empty result leaves the previous list in place.
StoredListKeepOnEmpty(old, formattedStories) ==
  IF formattedStories = <<>> THEN old ELSE formattedStories

\* lastStoriesList = formattedStories
StoredList(old, formattedStories) == formattedStories

\* Promise.all has resolved: filter, format, overwrite the slot, return.
ListComplete(c) ==
  /\ calls[c].pc = "awaitItems"
  /\ AllSettled(calls[c].results)
  /\ LET formattedStories == FormatStories(FilterStories(calls[c].results))
     IN /\ lastStoriesList' = StoredList(lastStoriesList, formattedStories)
        /\ calls' = [calls EXCEPT ![c].pc = "done",
                                  ![c].ret = formatStoriesAsText(formattedStories)]
  /\ hist' = [hist EXCEPT !.completed = c]
  /\ UNCHANGED <<text, cleaned, probe>>

\* ---------------------------------------------------------- hn_story
\* Variant: the argument check is missing.
StoryIdNeverRejected(storyId) == FALSE

\* if (isNaN(storyId)) throw new Error('Story ID must be a number')
StoryIdRejected(storyId) == isNaN(storyId)

\* hn_story up to the first await: the argument check, then the item request.
InvokeStory(c, idArg) ==
  /\ Free(c)
  /\ LET storyId == NumberOrNaN(idArg)
         base == [IdleCall EXCEPT !.name = "hn_story", !.storyId = storyId,
                                  !.args = [NoArgs EXCEPT !.story_id = idArg]]
     IN calls' = [calls EXCEPT ![c] =
          IF StoryIdRejected(storyId)
          THEN [base EXCEPT !.pc = "done", !.ret = Error("Story ID must be a number", 0)]
          ELSE [base EXCEPT !.pc = "awaitStory", !.target = storyId.n, !.itemReqs = 1]]
  /\ UNCHANGED <<lastStoriesList, hist, text, cleaned, probe>>

\* The item request of hn_story settles.
StoryResponse(c, ok) ==
  /\ calls[c].pc = "awaitStory"
  /\ calls[c].name = "hn_story"
  /\ LET story == getItemDetails(calls[c].target, ok)
     IN calls' = [calls EXCEPT ![c].pc = "done",
          ![c].ret = IF story.type = "null"
                     THEN Error("Story with ID not found", calls[c].target)
                     ELSE formatStoryAsText(story)]
  /\ UNCHANGED <<lastStoriesList, hist, text, cleaned, probe>>

\* ---------------------------------------------------------- hn_comments
\* Variant: story_index is taken as a 0-based index.
ResolveTargetZeroBased(storyId, storyIndex, slot) ==
  IF isNaN(storyId) /\ isNaN(storyIndex)
  THEN [ok |-> FALSE, target |-> 0,
        msg |-> "Either a story ID or a story index is required"]
  ELSE IF ~isNaN(storyId)
  THEN [ok |-> TRUE, target |-> storyId.n, msg |-> ""]
  ELSE IF ~isNaN(storyIndex) /\ storyIndex.n >= 0 /\ storyIndex.n < Len(slot)
  THEN [ok |-> TRUE, target |-> slot[storyIndex.n + 1].id, msg |-> ""]
  ELSE [ok |-> FALSE, target |-> 0, msg |-> "Invalid story index or ID provided"]

\* Variant: a numeric story_index is looked at before story_id.
ResolveTargetIndexFirst(storyId, storyIndex, slot) ==
  IF isNaN(storyId) /\ isNaN(storyIndex)
  THEN [ok |-> FALSE, target |-> 0,
        msg |-> "Either a story ID or a story index is required"]
  ELSE IF ~isNaN(storyIndex)
  THEN IF storyIndex.n > 0 /\ storyIndex.n <= Len(slot)
       THEN [ok |-> TRUE, target |-> slot[storyIndex.n].id, msg |-> ""]
       ELSE [ok |-> FALSE, target |-> 0, msg |-> "Invalid story index or ID provided"]
  ELSE [ok |-> TRUE, target |-> storyId.n, msg |-> ""]

\* The target id of hn_comments, or the error the resolution throws.
ResolveTarget(storyId, storyIndex, slot) ==
  IF isNaN(storyId) /\ isNaN(storyIndex)
  THEN [ok |-> FALSE, target |-> 0,
        msg |-> "Either a story ID or a story index is required"]
  ELSE IF ~isNaN(storyId)
  THEN [ok |-> TRUE, target |-> storyId.n, msg |-> ""]
  ELSE IF ~isNaN(storyIndex) /\ storyIndex.n > 0 /\ storyIndex.n <= Len(slot)
  THEN [ok |-> TRUE, target |-> slot[storyIndex.n].id, msg |-> ""]
  ELSE [ok |-> FALSE, target |-> 0, msg |-> "Invalid story index or ID provided"]

\* hn_comments up to the first await: resolve the target, request the story.
InvokeComments(c, idArg, indexArg) ==
  /\ Free(c)
  /\ LET storyId == NumberOrNaN(idArg)
         storyIndex == NumberOrNaN(indexArg)
         r == ResolveTarget(storyId, storyIndex, lastStoriesList)
         base == [IdleCall EXCEPT !.name = "hn_comments", !.storyId = storyId,
                                  !.storyIndex = storyIndex,
                                  !.args = [NoArgs EXCEPT !.story_id = idArg,
                                                          !.story_index = indexArg]]
     IN calls' = [calls EXCEPT ![c] =
          IF r.ok
          THEN [base EXCEPT !.pc = "awaitStory", !.target = r.target, !.itemReqs = 1]
          ELSE [base EXCEPT !.pc = "done", !.ret = Error(r.msg, 0)]]
  /\ UNCHANGED <<lastStoriesList, hist, text, cleaned, probe>>

\* Variant: only a missing kids field short-circuits.
HasNoKidsField(story) == ~story.hasKids

\* if (!story.kids || story.kids.length === 0)
HasNoKids(story) == ~story.hasKids \/ Len(story.kids) = 0

\* getComments: the ids whose fetches are launched; none for an empty list.
CommentIdsLaunched(commentIds) == IF Len(commentIds) = 0 THEN <<>> ELSE commentIds

\* The story request of hn_comments settles: not found, the short circuit,
\* or the fan-out over the story's kids.
CommentsStoryResponse(c, ok) ==
  /\ calls[c].pc = "awaitStory"
  /\ calls[c].name = "hn_comments"
  /\ LET story == getItemDetails(calls[c].target, ok)
         launched == CommentIdsLaunched(story.kids)
     IN calls' = [calls EXCEPT ![c] =
          IF story.type = "null"
          THEN [@ EXCEPT !.pc = "done",
                         !.ret = Error("Story with ID not found", calls[c].target)]
          ELSE IF HasNoKids(story)
          THEN [@ EXCEPT !.pc = "done",
                         !.ret = Text("No comments found for story", story.id, <<>>)]
          ELSE [@ EXCEPT !.pc = "awaitComments",
                         !.ids = launched,
                         !.results = [i \in 1..Len(launched) |-> Pending],
                         !.itemReqs = @ + Len(launched)]]
  /\ UNCHANGED <<lastStoriesList, hist, text, cleaned, probe>>

\* The comment batch has resolved: drop nulls, render.
CommentsComplete(c) ==
  /\ calls[c].pc = "awaitComments"
  /\ AllSettled(calls[c].results)
  /\ calls' = [calls EXCEPT ![c].pc = "done",
       ![c].ret = formatCommentsAsText(UpstreamItem(calls[c].target),
                                       FilterComments(calls[c].results))]
  /\ UNCHANGED <<lastStoriesList, hist, text, cleaned, probe>>

\* ---------------------------------------------------------- unknown tool
\* throw new Error(`Unknown tool: ${name}`)
InvokeUnknown(c) ==
  /\ Free(c)
  /\ calls' = [calls EXCEPT ![c] =
       [IdleCall EXCEPT !.pc = "done", !.name = "hn_unknown",
                        !.ret = Error("Unknown tool", 0)]]
  /\ UNCHANGED <<lastStoriesList, hist, text, cleaned, probe>>

\* ---------------------------------------------------------- the server
\* The host keeps several calls in flight at once.  The arguments are the
\* ones that decide how calls interfere through the session slot.
RaceLimitArgs == {Num(1), Num(2)}
RaceStoryIdArgs == {Absent, Num(2)}
RaceIndexArgs == {Absent} \cup {Num(n) : n \in 0..MaxIndexArg}

Next ==
  \/ \E c \in Calls, name \in ListNames, a \in RaceLimitArgs : InvokeList(c, name, a)
  \/ \E c \in Calls, ok \in BOOLEAN : IdsResponse(c, ok)
  \/ \E c \in Calls, i \in 1..MaxIds, ok \in BOOLEAN : ItemSettle(c, i, ok)
  \/ \E c \in Calls : ListComplete(c)
  \/ \E c \in Calls, a \in RaceStoryIdArgs : InvokeStory(c, a)
  \/ \E c \in Calls, ok \in BOOLEAN : StoryResponse(c, ok)
  \/ \E c \in Calls, b \in RaceIndexArgs : InvokeComments(c, Absent, b)
  \/ \E c \in Calls, ok \in BOOLEAN : CommentsStoryResponse(c, ok)
  \/ \E c \in Calls : CommentsComplete(c)
  \/ \E c \in Calls : InvokeUnknown(c)

Spec == Init /\ [][Next]_vars

\* The host issues one call at a time, with every argument the bounds allow.
NextSeq ==
  \/ \E name \in ListNames, a \in LimitArgs : InvokeList(1, name, a)
  \/ \E ok \in BOOLEAN : IdsResponse(1, ok)
  \/ \E i \in 1..MaxIds, ok \in BOOLEAN : ItemSettle(1, i, ok)
  \/ ListComplete(1)
  \/ \E a \in StoryIdArgs : InvokeStory(1, a)
  \/ \E ok \in BOOLEAN : StoryResponse(1, ok)
  \/ \E a \in StoryIdArgs, b \in StoryIndexArgs : InvokeComments(1, a, b)
  \/ \E ok \in BOOLEAN : CommentsStoryResponse(1, ok)
  \/ CommentsComplete(1)
  \/ InvokeUnknown(1)

SpecSeq == Init /\ [][NextSeq]_vars

\* ---------------------------------------------------------- limit handling
\* One list call against an upstream list of n ids whose items are all
\* stories and all arrive: the limit the handler passes on, and the number
\* of item fetches the orchestrator launches for it.
WideLimitArgs == {Absent, Str} \cup {Num(n) : n \in -2..MaxWideLimit}

InitLimit ==
  /\ calls = [c \in Calls |-> IdleCall]
  /\ lastStoriesList = <<>>
  /\ hist = [started |-> 0, completed |-> 0]
  /\ text = <<>>
  /\ cleaned = NotCleaned
  /\ probe \in {[phase |-> "called", limitArg |-> a, n |-> n, limit |-> 0, launched |-> 0] :
                  a \in WideLimitArgs, n \in 0..MaxUpstreamIds}

\* The handler reads args.limit.
ProbeResolve ==
  /\ probe.phase = "called"
  /\ probe' = [probe EXCEPT !.phase = "resolved", !.limit = ResolveLimit(probe.limitArg)]
  /\ UNCHANGED <<calls, lastStoriesList, hist, text, cleaned>>

\* The orchestrator slices the id list and launches one fetch per id.
ProbeLaunch ==
  /\ probe.phase = "resolved"
  /\ probe' = [probe EXCEPT !.phase = "launched",
                 !.launched = Len(LaunchedIds([i \in 1..probe.n |-> i], probe.limit))]
  /\ UNCHANGED <<calls, lastStoriesList, hist, text, cleaned>>

NextLimit == ProbeResolve \/ ProbeLaunch

SpecLimit == InitLimit /\ [][NextLimit]_vars

\* ---------------------------------------------------------- cleanText runs
Chunks ==
  { <<"&", "l", "t", ";">>, <<"&", "g", "t", ";">>, <<"&", "a", "m", "p", ";">>,
    <<"&", "q", "u", "o", "t", ";">>, <<"<">>, <<">">>, <<"b">>, <<"/">>,
    <<"l", "t", ";">> }

RECURSIVE Concat(_)
Concat(ss) == IF ss = <<>> THEN <<>> ELSE Head(ss) \o Concat(Tail(ss))

ChunkTexts ==
  UNION { {Concat(ss) : ss \in [1..k -> Chunks]} : k \in 0..MaxChunks }

\* "&lt;b&gt;hi&lt;/b&gt;"
EscapedBold ==
  <<"&", "l", "t", ";", "b", "&", "g", "t", ";", "h", "i",
    "&", "l", "t", ";", "/", "b", "&", "g", "t", ";">>

\* "<p>&amp;</p>"
ParagraphAmp == <<"<", "p", ">", "&", "a", "m", "p", ";", "<", "/", "p", ">">>

CleanInputs == ChunkTexts \cup {EscapedBold, ParagraphAmp}

InitClean ==
  /\ calls = [c \in Calls |-> IdleCall]
  /\ lastStoriesList = <<>>
  /\ hist = [started |-> 0, completed |-> 0]
  /\ text \in CleanInputs
  /\ cleaned = NotCleaned
  /\ probe = NoProbe

Clean ==
  /\ ~cleaned.done
  /\ cleaned' = [done |-> TRUE, out |-> cleanText(text)]
  /\ UNCHANGED <<calls, lastStoriesList, hist, text, probe>>

NextClean == Clean

SpecClean == InitClean /\ [][NextClean]_vars

\* ====================================================================
\* Properties
\* ====================================================================
ListInFlight(c) == calls[c].pc \in {"awaitIds", "awaitItems"}
ListDone(c) == calls[c].pc = "done" /\ calls[c].name \in ListNames

\* The step in which call c is invoked as tool name.
Invoked(c, name) ==
  /\ Free(c)
  /\ calls'[c] # calls[c]
  /\ calls'[c].name = name

\* Call c is an hn_comments call that was given a story_index and no story_id.
ByIndexOnly(call) ==
  /\ call.name = "hn_comments"
  /\ call.args.story_id.t = "absent"
  /\ call.args.story_index.t = "number"

\* ---- C1 -------------------------------------------------------------
\* C1, first half: the slot holds the list of the list call that completed
\* last, that is, the list that call returned to its caller.
C1_SlotIsLastCompleted ==
  \A c \in Calls :
    (hist.completed = c /\ ListDone(c)) => Ids(lastStoriesList) = calls[c].ret.ids

\* C1, second half: an hn_comments call by story_index invoked while no list
\* call is in flight resolves its id against the list of the list call that
\* completed last, and against no other.
C1_IndexReadsLastCompleted ==
  \A c, d \in Calls :
    ( /\ Invoked(c, "hn_comments")
      /\ ByIndexOnly(calls'[c])
      /\ \A e \in Calls : ~ListInFlight(e)
      /\ hist.completed = d /\ ListDone(d) )
    => LET i == calls'[c].args.story_index.n
           list == calls[d].ret.ids
       IN IF i >= 1 /\ i <= Len(list)
          THEN calls'[c].pc = "awaitStory" /\ calls'[c].target = list[i]
          ELSE calls'[c].pc = "done" /\ calls'[c].ret.kind = "error"

\* C1: concurrent list calls each overwrite the slot when they complete, so
\* the last one to complete wins, and a later lookup by index sees its list.
C1_LastCompletedWins ==
  []C1_SlotIsLastCompleted /\ [][C1_IndexReadsLastCompleted]_vars

\* Two list calls have both completed with different lists; the one that
\* started first completed last, and the slot holds its list.
C1_Witness ==
  \E c, d \in Calls :
    /\ c # d
    /\ ListDone(c) /\ ListDone(d)
    /\ hist.started = d /\ hist.completed = c
    /\ calls[c].ret.ids # calls[d].ret.ids
    /\ calls[c].ret.ids # <<>> /\ calls[d].ret.ids # <<>>
    /\ Ids(lastStoriesList) = calls[c].ret.ids

\* ---- C2 -------------------------------------------------------------
\* C2: hn_comments with only story_index = i takes the id of the i-th story
\* of the slot when 1 <= i <= Len(slot) and requests that story; otherwise
\* it throws 'Invalid story index or ID provided' without any request.  A
\* text it returns is about the story it resolved.
C2_ByIndexStep ==
  \A c \in Calls :
    (Invoked(c, "hn_comments") /\ ByIndexOnly(calls'[c]))
    => LET i == calls'[c].args.story_index.n
       IN IF i >= 1 /\ i <= Len(lastStoriesList)
          THEN /\ calls'[c].pc = "awaitStory"
               /\ calls'[c].target = lastStoriesList[i].id
               /\ calls'[c].itemReqs = 1
          ELSE /\ calls'[c].pc = "done"
               /\ calls'[c].ret = Error("Invalid story index or ID provided", 0)
               /\ calls'[c].itemReqs = 0 /\ calls'[c].listReqs = 0

C2_ByIndexResult ==
  \A c \in Calls :
    (ByIndexOnly(calls[c]) /\ calls[c].pc = "done" /\ calls[c].ret.kind = "text")
    => /\ calls[c].target >= 1
       /\ calls[c].ret.msg \in {"comments", "No comments found for story"}
          => calls[c].ret.id = calls[c].target
       /\ \A k \in 1..Len(calls[c].ret.ids) :
            \E j \in 1..Len(UpstreamItem(calls[c].target).kids) :
              calls[c].ret.ids[k] = UpstreamItem(calls[c].target).kids[j]

C2_CommentsByIndex == [][C2_ByIndexStep]_vars /\ []C2_ByIndexResult

\* One call by index 2 has returned the comments of the second story of the
\* list, another by an index beyond the list has thrown the index error.
C2_Witness ==
  \E c, d \in Calls :
    /\ ByIndexOnly(calls[c]) /\ calls[c].args.story_index.n = 2
    /\ calls[c].pc = "done" /\ calls[c].ret.msg = "comments"
    /\ calls[c].ret.id = 2
    /\ ByIndexOnly(calls[d]) /\ calls[d].args.story_index.n >= 1
    /\ calls[d].ret = Error("Invalid story index or ID provided", 0)

\* ---- C10 ------------------------------------------------------------
\* C10: only the completion of a list call changes the slot, and every
\* completion of a list call sets it to that call's list, the empty list
\* included; every other step, and every call that throws, leaves it alone.
C10_Step ==
  /\ (lastStoriesList' # lastStoriesList)
       => \E c \in Calls : calls[c].pc = "awaitItems" /\ calls'[c].pc = "done"
  /\ \A c \in Calls :
       (calls[c].pc = "awaitItems" /\ calls'[c].pc = "done")
       => /\ lastStoriesList' = FormatStories(FilterStories(calls[c].results))
          /\ Ids(lastStoriesList') = calls'[c].ret.ids
          /\ calls[c].idsFailed => lastStoriesList' = <<>>
  /\ \A c \in Calls :
       (calls'[c] # calls[c] /\ calls'[c].ret.kind = "error")
       => lastStoriesList' = lastStoriesList

C10_SlotFrame == [][C10_Step]_vars

\* A lookup by index found a story in the slot; then a list call whose
\* id-list request failed completed and left the slot empty.
C10_Witness ==
  \E c, d \in Calls :
    /\ c # d
    /\ hist.completed = c /\ ListDone(c) /\ calls[c].idsFailed
    /\ lastStoriesList = <<>>
    /\ ByIndexOnly(calls[d]) /\ calls[d].target >= 1

\* ---- C3 -------------------------------------------------------------
\* C3: in hn_comments a numeric story_id is the target whatever story_index
\* and the slot hold, and the call goes on to request that story; with
\* neither a numeric story_id nor a numeric story_index the call throws
\* 'Either a story ID or a story index is required' without any request.
C3_StoryIdFirst ==
  \A c \in Calls :
    calls[c].name = "hn_comments" =>
      /\ calls[c].args.story_id.t = "number"
           => /\ calls[c].target = calls[c].args.story_id.n
              /\ calls[c].itemReqs >= 1
              /\ calls[c].ret.msg \notin
                   {"Invalid story index or ID provided",
                    "Either a story ID or a story index is required"}
      /\ (calls[c].args.story_id.t # "number" /\ calls[c].args.story_index.t # "number")
           => /\ calls[c].pc = "done"
              /\ calls[c].ret = Error("Either a story ID or a story index is required", 0)
              /\ calls[c].itemReqs = 0 /\ calls[c].listReqs = 0

\* A call with a numeric story_id and a story_index beyond the slot has
\* returned a text about the story of that id.
C3_Witness ==
  \E c \in Calls :
    /\ calls[c].name = "hn_comments"
    /\ calls[c].args.story_id.t = "number"
    /\ calls[c].args.story_index.t = "number"
    /\ calls[c].args.story_index.n > Len(lastStoriesList)
    /\ lastStoriesList # <<>>
    /\ calls[c].pc = "done" /\ calls[c].ret.kind = "text"
    /\ calls[c].ret.id = calls[c].args.story_id.n

\* ---- C4 -------------------------------------------------------------
IsStrictlyIncreasing(f) ==
  \A k, l \in DOMAIN f : k < l => f[k] < f[l]

\* C4: for 0 <= limit <= 50 a list call returns at most limit records; they
\* are a subsequence, in upstream order, of the first limit ids of the
\* upstream list; and an id of that prefix is missing exactly when its
\* fetch gave null or an item that is not a story.
C4_OrderedPrefix ==
  \A c \in Calls :
    (ListDone(c) /\ calls[c].limit >= 0 /\ calls[c].limit <= SchemaLimitMax)
    => LET up == UpstreamIds(calls[c].name)
           n == Min(calls[c].limit, Len(up))
           r == calls[c].ret.ids
       IN /\ Len(r) <= calls[c].limit
          /\ \E f \in [1..Len(r) -> 1..n] :
               /\ IsStrictlyIncreasing(f)
               /\ \A k \in 1..Len(r) : r[k] = up[f[k]]
          /\ ~calls[c].idsFailed =>
               /\ Len(calls[c].results) = n
               /\ \A i \in 1..n :
                    (\E k \in 1..Len(r) : r[k] = up[i])
                      <=> calls[c].results[i].type = "story"

\* hn_top with limit 2 of 3 upstream ids: the second fetch settled before
\* the first, and the call returned stories 1 and 2 in upstream order.
C4_Witness ==
  \E c \in Calls :
    /\ ListDone(c) /\ calls[c].name = "hn_top"
    /\ calls[c].limit = 2 /\ Len(UpstreamIds("hn_top")) > 2
    /\ calls[c].outOfOrder
    /\ calls[c].ret.ids = <<1, 2>>

\* ---- C5 -------------------------------------------------------------
\* C5: a list call never throws.  When the id-list request fails it returns
\* 'No stories found.'; when item fetches fail it returns every story whose
\* fetch succeeded; either way it completes with a text.
C5_ListNeverThrows ==
  \A c \in Calls :
    calls[c].name \in ListNames =>
      /\ calls[c].ret.kind # "error"
      /\ calls[c].pc = "done" =>
           /\ calls[c].ret.kind = "text"
           /\ calls[c].idsFailed => calls[c].ret = Text("No stories found.", 0, <<>>)
           /\ \A i \in 1..Len(calls[c].results) :
                calls[c].results[i].type = "story"
                  => \E k \in 1..Len(calls[c].ret.ids) :
                       calls[c].ret.ids[k] = calls[c].results[i].id

\* One list call whose id-list request failed returned 'No stories found.';
\* another lost one of two item fetches and returned the other story.
C5_Witness ==
  \E c, d \in Calls :
    /\ ListDone(c) /\ calls[c].idsFailed
    /\ calls[c].ret = Text("No stories found.", 0, <<>>)
    /\ ListDone(d) /\ Len(calls[d].results) = 2
    /\ calls[d].results[1] = Null /\ calls[d].results[2].type = "story"
    /\ calls[d].ret = Text("stories", 0, <<calls[d].results[2].id>>)

\* ---- C6 -------------------------------------------------------------
\* C6: hn_story with a missing or non-numeric story_id throws 'Story ID must
\* be a number' with no upstream request issued; a request for the item is
\* issued only for a numeric story_id, and for that id.
C6_CheckBeforeFetch ==
  \A c \in Calls :
    calls[c].name = "hn_story" =>
      /\ calls[c].args.story_id.t # "number"
           => /\ calls[c].pc = "done"
              /\ calls[c].ret = Error("Story ID must be a number", 0)
              /\ calls[c].itemReqs = 0 /\ calls[c].listReqs = 0
      /\ calls[c].itemReqs > 0
           => /\ calls[c].args.story_id.t = "number"
              /\ calls[c].target = calls[c].args.story_id.n

\* hn_story was called with a string story_id and threw.
C6_Witness ==
  \E c \in Calls :
    /\ calls[c].name = "hn_story"
    /\ calls[c].args.story_id.t = "string"
    /\ calls[c].ret = Error("Story ID must be a number", 0)

\* ---- C7 -------------------------------------------------------------
\* C7: hn_comments for a story without a kids field, or with an empty one,
\* returns 'No comments found for story "<title>" (ID: <id>)' and launches
\* no comment fetch: its only request is the fetch of the story itself.
C7_NoKidsShortCircuit ==
  \A c \in Calls :
    LET story == UpstreamItem(calls[c].target)
    IN ( /\ calls[c].name = "hn_comments"
         /\ calls[c].itemReqs > 0
         /\ story.type # "null"
         /\ (~story.hasKids \/ story.kids = <<>>) )
       => /\ calls[c].pc # "awaitComments"
          /\ calls[c].itemReqs = 1 /\ calls[c].listReqs = 0
          /\ (calls[c].pc = "done" /\ calls[c].ret.kind = "text")
               => calls[c].ret = Text("No comments found for story", story.id, <<>>)

\* hn_comments for story 4, whose kids list is empty, returned the
\* short-circuit text after one request.
C7_Witness ==
  \E c \in Calls :
    /\ calls[c].name = "hn_comments" /\ calls[c].target = 4
    /\ UpstreamItem(4).hasKids /\ UpstreamItem(4).kids = <<>>
    /\ calls[c].pc = "done" /\ calls[c].itemReqs = 1
    /\ calls[c].ret = Text("No comments found for story", 4, <<>>)

\* ---- C8 -------------------------------------------------------------
\* C8: the tool layer defaults limit to 10 and clamps a supplied limit to
\* 1-50, so no list call launches more than 50 item fetches, whatever limit
\* the caller passes.
C8_AtMostFiftyFetches ==
  probe.phase = "launched" =>
    /\ probe.limitArg.t # "number" => probe.limit = DefaultLimit
    /\ probe.launched <= SchemaLimitMax

\* ---- C9 -------------------------------------------------------------
\* C9 as stated: tags produced by decoding pass through un-stripped, so
\* "&lt;b&gt;hi&lt;/b&gt;" cleans to "<b>hi</b>".
C9_DecodedTagsKept ==
  (cleaned.done /\ text = EscapedBold)
    => cleaned.out = <<"<", "b", ">", "h", "i", "<", "/", "b", ">">>

\* C9 as amended: the four entities are decoded in the order &gt; &lt; &amp;
\* &quot; before the tag-strip pass, so tags produced by decoding are
\* stripped with the rest: no '<' survives, "&lt;b&gt;hi&lt;/b&gt;" cleans
\* to "hi", and "&amp;lt;" cleans to "&lt;" (decoded once, not twice).
C9_DecodedTagsStripped ==
  cleaned.done =>
    /\ \A i \in 1..Len(cleaned.out) : cleaned.out[i] # "<"
    /\ text = EscapedBold => cleaned.out = <<"h", "i">>
    /\ text = <<"&", "a", "m", "p", ";", "l", "t", ";">>
         => cleaned.out = <<"&", "l", "t", ";">>
    /\ text = ParagraphAmp => cleaned.out = <<"&">>

\* "&lt;b&gt;hi&lt;/b&gt;" has been cleaned to "hi".
C9_Witness ==
  cleaned.done /\ text = EscapedBold /\ cleaned.out = <<"h", "i">>

====
